---- MODULE Spec2Model ----
(***************************************************************************)
(* spf-digraph (src/src/gen.py): the SPF include resolver, the tree        *)
(* builder that consumes its enter/exit events, and the tree operations.   *)
(*                                                                         *)
(* Text is a sequence of atoms: the characters that the code's string      *)
(* operations look at (the double quote, the blank, the colon) are atoms   *)
(* of their own, every other atom is a run of characters holding none of   *)
(* these three ("v=spf1", "include", "~all", a domain label).  A domain    *)
(* name is a text as well, so that a name cut out of a record carries      *)
(* whatever characters the cut left in it.                                 *)
(***************************************************************************)
EXTENDS Naturals, Sequences, FiniteSets

(* ------------------------------ bounds --------------------------------- *)
\* total number of include terms written in the records of the zone
MaxIncludes == 3
\* number of names of the zone whose TXT records are not in the plain form
MaxOdd == 1
\* number of nodes of a tree made directly with Node / add_child
MaxNodes == 5
\* number of names used for the nodes of such a tree
NumNames == 3

Q == "\""
SP == " "
COLON == ":"
\* what query gives: the TXT records, or a DNSException raised
FAIL == [ok |-> FALSE, records |-> <<>>]
Ok(res) == [ok |-> TRUE, records |-> res]
None == 0
NoOutput == [op |-> "none", val |-> <<>>]

VARIABLES
    env,      \* the run: how many include terms and odd record lists the zone
              \* holds at most, and how many build calls the caller makes
    dns,      \* the TXT answers the DNS has given so far: name -> FAIL or records
    calls,    \* the chain of suspended Resolver.__call__ generators, root first
    visited,  \* the set object threaded through the recursive calls
    events,   \* the (typ, name) pairs the root generator has yielded to build
    stack,    \* TreeBuilder.stack: node ids, bottom first
    nodes,    \* the Node objects: id -> [name, children, children_names]
    tree,     \* build's local "tree": the head of the last Tree made, or None
    root,     \* the domain passed to the build call in progress or last made
    builds,   \* number of build calls that have returned
    out       \* what the last call of a tree operation produced

vars == <<env, dns, calls, visited, events, stack, nodes, tree, root, builds, out>>

(* --------------------------- text operations --------------------------- *)
RECURSIVE lstrip(_, _)
lstrip(x, ch) ==
    IF x # <<>> /\ Head(x) = ch THEN lstrip(Tail(x), ch) ELSE x

RECURSIVE rstrip(_, _)
rstrip(x, ch) ==
    IF x # <<>> /\ x[Len(x)] = ch THEN rstrip(SubSeq(x, 1, Len(x) - 1), ch) ELSE x

\* str.strip(ch): every leading and every trailing ch goes
strip(x, ch) == rstrip(lstrip(x, ch), ch)

startswith(x, prefix) ==
    /\ Len(x) >= Len(prefix)
    /\ SubSeq(x, 1, Len(prefix)) = prefix

\* str.split(sep): the fields between the separators, empty fields kept
RECURSIVE split_sep(_, _, _)
split_sep(x, sep, cur) ==
    IF x = <<>> THEN <<cur>>
    ELSE IF Head(x) = sep THEN <<cur>> \o split_sep(Tail(x), sep, <<>>)
    ELSE split_sep(Tail(x), sep, Append(cur, Head(x)))

\* str.split(): the runs of non-blank characters, no empty field
split(x) == SelectSeq(split_sep(x, SP, <<>>), LAMBDA f : f # <<>>)

Range(f) == { f[i] : i \in DOMAIN f }

\* find (31-38): the first element of itr satisfying f, or default; the
\* predicate f is given as a function on the elements of itr
find(f, itr, default) ==
    IF \E i \in 1..Len(itr) : f[itr[i]]
    THEN itr[CHOOSE i \in 1..Len(itr) :
                 f[itr[i]] /\ \A j \in 1..(i - 1) : ~f[itr[j]]]
    ELSE default

(* ------------------------------ Resolver ------------------------------- *)
is_include(record) == startswith(record, <<"include", COLON>>)

\* a test that takes a Sender ID record for an SPF record too
is_spf_or_sender_id(x) ==
    \/ startswith(strip(x, Q), <<"v=spf1">>)
    \/ startswith(strip(x, Q), <<"spf2.0/pra">>)

\* 121-125
is_spf(x) == startswith(strip(x, Q), <<"v=spf1">>)

\* line 145: record.split(':')[1]
include_name(record) == split_sep(record, COLON, <<>>)[2]

\* lines 142-144: the include terms of the answer, in order
include_terms(res) ==
    SelectSeq(split(find([x \in Range(res) |-> is_spf(x)], res, <<>>)), is_include)

\* a guard that looks only at the calls in progress, as a visited set copied
\* for every branch would
visited_on_branch(domain, vis) ==
    \E i \in 1..Len(calls) : calls[i].domain = domain /\ calls[i].pc # "start"

\* no guard at all
never_visited(domain, vis) == FALSE

\* line 135
already_visited(domain, vis) == domain \in vis

\* line 139
enter_event(domain) == <<"enter", domain>>

\* line 151 written as a copy of line 139
exit_event_as_enter(domain) == <<"enter", domain>>

\* line 151
exit_event(domain) == <<"exit", domain>>

\* the frame of a call of Resolver.__call__ that has not run yet
Frame(domain) == [domain |-> domain, pc |-> "start", todo |-> <<>>]

\* an exception that ends the include loops of the calling generators as well
except_in_callers(cs) ==
    [i \in 1..Len(cs) |-> IF i = Len(cs) THEN [cs[i] EXCEPT !.pc = "loop", !.todo = <<>>]
                          ELSE [cs[i] EXCEPT !.todo = <<>>]]

\* 148-151: the DNSException raised by query in the innermost call is caught
\* there: that call has no include term to loop over and goes on to its exit
except_DNSException(cs) ==
    [cs EXCEPT ![Len(cs)] = [@ EXCEPT !.pc = "loop", !.todo = <<>>]]

(* -------------------------------- Node --------------------------------- *)
Node(name) == [name |-> name, children |-> <<>>, children_names |-> {}]

\* add_child without the test of line 52
add_child_always(heap, self, name) ==
    LET node == Len(heap) + 1
    IN  [heap |-> Append([heap EXCEPT
                             ![self].children = Append(@, node),
                             ![self].children_names = @ \cup {name}],
                         Node(name)),
         node |-> node]

\* add_child (51-58): the heap after the call and the node returned
add_child(heap, self, name) ==
    IF name \notin heap[self].children_names
    THEN LET node == Len(heap) + 1
         IN  [heap |-> Append([heap EXCEPT
                                  ![self].children = Append(@, node),
                                  ![self].children_names = @ \cup {name}],
                              Node(name)),
              node |-> node]
    ELSE [heap |-> heap,
          node |-> find([x \in Range(heap[self].children) |-> heap[x].name = name],
                        heap[self].children, None)]

\* list(a set) (70): the elements once each, in an order the caller cannot choose
list_orders(S) == { s \in [1..Cardinality(S) -> S] : Range(s) = S }

\* to_obj that leaves the children out
to_obj_without_children(node, order) == [name |-> node.name, children |-> <<>>]

\* to_obj (67-71), given the order in which list() enumerates children_names
to_obj(node, order) == [name |-> node.name, children |-> order]

(* ----------------------------- TreeBuilder ----------------------------- *)
\* line 97 making a Tree only while nodes are left on the stack
handle_tree_of_nested(ev, st) ==
    IF ev[1] = "enter"
    THEN IF Len(st.stack) # 0
         THEN LET r == add_child(st.nodes, st.stack[Len(st.stack)], ev[2])
              IN  [stack |-> Append(st.stack, r.node), nodes |-> r.heap,
                   tree |-> st.tree]
         ELSE [stack |-> Append(st.stack, Len(st.nodes) + 1),
               nodes |-> Append(st.nodes, Node(ev[2])),
               tree |-> st.tree]
    ELSE IF ev[1] = "exit"
    THEN [stack |-> SubSeq(st.stack, 1, Len(st.stack) - 1),
          nodes |-> st.nodes,
          tree |-> IF Len(st.stack) > 1 THEN st.stack[Len(st.stack)] ELSE st.tree]
    ELSE st

\* line 97 making a Tree only when the pop leaves the stack empty
handle_tree_at_root_exit(ev, st) ==
    IF ev[1] = "enter"
    THEN IF Len(st.stack) # 0
         THEN LET r == add_child(st.nodes, st.stack[Len(st.stack)], ev[2])
              IN  [stack |-> Append(st.stack, r.node), nodes |-> r.heap,
                   tree |-> st.tree]
         ELSE [stack |-> Append(st.stack, Len(st.nodes) + 1),
               nodes |-> Append(st.nodes, Node(ev[2])),
               tree |-> st.tree]
    ELSE IF ev[1] = "exit"
    THEN [stack |-> SubSeq(st.stack, 1, Len(st.stack) - 1),
          nodes |-> st.nodes,
          tree |-> IF Len(st.stack) = 1 THEN st.stack[Len(st.stack)] ELSE st.tree]
    ELSE st

\* line 92 adding the child to the bottom of the stack, self.stack[0]
handle_child_of_bottom(ev, st) ==
    IF ev[1] = "enter"
    THEN IF Len(st.stack) # 0
         THEN LET r == add_child(st.nodes, st.stack[1], ev[2])
              IN  [stack |-> Append(st.stack, r.node), nodes |-> r.heap,
                   tree |-> st.tree]
         ELSE [stack |-> Append(st.stack, Len(st.nodes) + 1),
               nodes |-> Append(st.nodes, Node(ev[2])),
               tree |-> st.tree]
    ELSE IF ev[1] = "exit"
    THEN [stack |-> SubSeq(st.stack, 1, Len(st.stack) - 1),
          nodes |-> st.nodes,
          tree |-> st.stack[Len(st.stack)]]
    ELSE st

\* the body of build's loop (89-97) for one event: the builder's state after it
handle(ev, st) ==
    IF ev[1] = "enter"
    THEN IF Len(st.stack) # 0
         THEN LET r == add_child(st.nodes, st.stack[Len(st.stack)], ev[2])
              IN  [stack |-> Append(st.stack, r.node), nodes |-> r.heap,
                   tree |-> st.tree]
         ELSE [stack |-> Append(st.stack, Len(st.nodes) + 1),
               nodes |-> Append(st.nodes, Node(ev[2])),
               tree |-> st.tree]
    ELSE IF ev[1] = "exit"
    THEN [stack |-> SubSeq(st.stack, 1, Len(st.stack) - 1),
          nodes |-> st.nodes,
          tree |-> st.stack[Len(st.stack)]]
    ELSE st

Builder == [stack |-> stack, nodes |-> nodes, tree |-> tree]

\* the root generator yields ev and build's loop body runs on it
Yield(ev) ==
    LET st == handle(ev, Builder)
    IN  /\ events' = Append(events, ev)
        /\ stack' = st.stack
        /\ nodes' = st.nodes
        /\ tree' = st.tree

(* -------------------------------- Tree --------------------------------- *)
\* bigrams (162-173): the pairs in the order they are yielded
RECURSIVE bigrams(_, _)
RECURSIVE bigrams_from(_, _, _)
\* lines 171-173 with the edge yielded before the nested bigrams
RECURSIVE bigrams_from_edge_first(_, _, _)
bigrams_from_edge_first(heap, node, i) ==
    IF i > Len(heap[node].children) THEN <<>>
    ELSE LET n == heap[node].children[i]
         IN  << <<heap[node].name, heap[n].name>> >>
                 \o bigrams(heap, n)
                 \o bigrams_from_edge_first(heap, node, i + 1)

bigrams_from(heap, node, i) ==
    IF i > Len(heap[node].children) THEN <<>>
    ELSE LET n == heap[node].children[i]
         IN  bigrams(heap, n)
                 \o << <<heap[node].name, heap[n].name>> >>
                 \o bigrams_from(heap, node, i + 1)
\* bigrams without the nested call of line 171
bigrams_of_children(heap, node) ==
    [i \in 1..Len(heap[node].children) |->
        <<heap[node].name, heap[heap[node].children[i]].name>>]

bigrams(heap, node) == bigrams_from(heap, node, 1)

\* each_node (181-194): the nodes yielded and the visited set afterwards
RECURSIVE each_node(_, _, _)
RECURSIVE each_node_from(_, _, _, _)
each_node_from(heap, vis, node, i) ==
    IF i > Len(heap[node].children) THEN [yielded |-> <<>>, visited |-> vis]
    ELSE LET r == each_node(heap, vis, heap[node].children[i])
             s == each_node_from(heap, r.visited, node, i + 1)
         IN  [yielded |-> r.yielded \o s.yielded, visited |-> s.visited]
each_node(heap, vis, node) ==
    IF heap[node].name \in vis THEN [yielded |-> <<>>, visited |-> vis]
    ELSE LET r == each_node_from(heap, vis \cup {heap[node].name}, node, 1)
         IN  [yielded |-> <<node>> \o r.yielded, visited |-> r.visited]

\* to_json (196-197): the lists that json.dumps can be given: one object for
\* each node that each_node yields, in that order
RECURSIVE to_json_from(_, _, _)
to_json_from(heap, ys, i) ==
    IF i > Len(ys) THEN {<<>>}
    ELSE { <<to_obj(heap[ys[i]], o)>> \o rest :
               o \in list_orders(heap[ys[i]].children_names),
               rest \in to_json_from(heap, ys, i + 1) }

to_json(heap, head) == to_json_from(heap, each_node(heap, {}, head).yielded, 1)

(* ------------------------------- the DNS ------------------------------- *)
\* The zone holds at most MaxIncludes + 1 include terms, so at most
\* MaxIncludes + 2 names matter.  Domain names are opaque to the code, so the
\* zone is explored up to renaming: a name not met before is the next label.
NumDomains == MaxIncludes + 2
Labels == <<"a", "b", "c", "d", "e", "f", "g", "h">>
Domains == { <<Labels[i]>> : i \in 1..NumDomains }
Index(domain) == CHOOSE i \in 1..NumDomains : domain = <<Labels[i]>>

SpfText(terms, tail) ==
    LET body[i \in 0..Len(terms)] ==
            IF i = 0 THEN <<Q, "v=spf1">>
            ELSE body[i - 1] \o <<SP, "include", COLON>> \o terms[i]
    IN  body[Len(terms)] \o (IF tail THEN <<SP, "~all">> ELSE <<>>) \o <<Q>>

\* a Sender ID record: a TXT record with include terms that is no SPF record
SenderIdText == <<Q, "spf2.0/pra", SP, "include", COLON, "b", SP, "~all", Q>>

\* the labels met so far: in the names asked for and in the records answered
AtomsMet ==
    Range(root)
        \cup UNION { Range(d) : d \in DOMAIN dns }
        \cup UNION { UNION { Range(r) : r \in Range(dns[d].records) } : d \in DOMAIN dns }
NumMet == Cardinality({ i \in 1..NumDomains : Labels[i] \in AtomsMet })

\* the include lists of at most n targets written when k names have been met:
\* a target is a name met before or the first name not met yet
RECURSIVE IncludeLists(_, _)
IncludeLists(n, k) ==
    IF n = 0 THEN {<<>>}
    ELSE {<<>>} \cup UNION {
             { <<<<Labels[i]>>>> \o t : t \in IncludeLists(n - 1, IF i > k THEN i ELSE k) } :
                 i \in { j \in 1..NumDomains : j <= k + 1 } }

RECURSIVE SumLen(_)
SumLen(S) ==
    IF S = {} THEN 0
    ELSE LET d == CHOOSE d \in S : TRUE
         IN  Len(include_terms(dns[d].records)) + SumLen(S \ {d})

IncludesLeft == env.includes - SumLen(DOMAIN dns)

\* a record list is plain when it is one SPF record closed by an "all" term,
\* or one record that is no SPF record
Plain(res) ==
    /\ Len(res) = 1
    /\ \/ res[1] = SenderIdText
       \/ SubSeq(res[1], Len(res[1]) - 1, Len(res[1])) = <<"~all", Q>>

OddLeft == env.odd - Cardinality({ d \in DOMAIN dns : dns[d].ok /\ ~Plain(dns[d].records) })

\* an include list of one name, written with a colon and more text after it
WithColon(t) == <<t[1] \o <<COLON, "x">>>>

\* the records the zone can hold for a name not asked for before: plain ones,
\* and while OddLeft allows an SPF record whose last term is an include, an
\* SPF record that is not the first TXT record of the name, or an SPF record
\* with one include term that has a colon in the text after "include:"
Records(name) ==
    IF name \notin Domains THEN {}
    ELSE LET lists == IncludeLists(IncludesLeft, NumMet)
         IN  {<<SenderIdText>>}
                 \cup { <<SpfText(t, TRUE)>> : t \in lists }
                 \cup (IF OddLeft > 0
                       THEN { <<SpfText(t, FALSE)>> : t \in lists }
                                \cup { <<SenderIdText, SpfText(t, TRUE)>> : t \in lists }
                                \cup { <<SpfText(WithColon(t), TRUE)>> : t \in { u \in lists : Len(u) = 1 } }
                       ELSE {})

\* the answers query(name, "TXT") can give: the one given before, since the
\* zone does not change, or else any answer; a name outside the zone fails
Answers(name) ==
    IF name \in DOMAIN dns THEN {dns[name]}
    ELSE {FAIL} \cup { Ok(res) : res \in Records(name) }

Asked(name, ans) ==
    [d \in DOMAIN dns \cup {name} |-> IF d = name THEN ans ELSE dns[d]]

(* ------------- the traversal as a function of the answers -------------- *)
\* Resolver.__call__(domain, vis) (127-151) run to its end against the
\* answers in dns: the events it yields and the visited set afterwards
RECURSIVE resolve(_, _)
RECURSIVE resolve_terms(_, _, _)
resolve_terms(terms, i, vis) ==
    IF i > Len(terms) THEN [events |-> <<>>, visited |-> vis]
    ELSE LET r == resolve(include_name(terms[i]), vis)
             s == resolve_terms(terms, i + 1, r.visited)
         IN  [events |-> r.events \o s.events, visited |-> s.visited]
resolve(domain, vis) ==
    IF already_visited(domain, vis) THEN [events |-> <<>>, visited |-> vis]
    ELSE LET ans == IF domain \in DOMAIN dns THEN dns[domain] ELSE FAIL
             terms == IF ans.ok THEN include_terms(ans.records) ELSE <<>>
             r == resolve_terms(terms, 1, vis \cup {domain})
         IN  [events |-> <<enter_event(domain)>> \o r.events \o <<exit_event(domain)>>,
              visited |-> r.visited]

\* build's loop (88-97) run over a sequence of events from the state st
RECURSIVE build_loop(_, _)
build_loop(evs, st) ==
    IF evs = <<>> THEN st ELSE build_loop(Tail(evs), handle(Head(evs), st))

\* TreeBuilder().build(domain) (79-98): a new builder, with its empty stack
fresh_build(domain) ==
    build_loop(resolve(domain, {}).events, [stack |-> <<>>, nodes |-> <<>>, tree |-> None])

(* ------------------------------- actions ------------------------------- *)
Top == calls[Len(calls)]
Pop == SubSeq(calls, 1, Len(calls) - 1)
SetTop(f) == [calls EXCEPT ![Len(calls)] = f]
Idle == calls = <<>>
\* 88, 98: when the root generator ends, build's loop ends and build returns
Returned == IF Len(calls) = 1 THEN builds + 1 ELSE builds

\* nothing has run yet
Start ==
    /\ dns = [d \in {} |-> FAIL]
    /\ calls = <<>>
    /\ visited = {}
    /\ events = <<>>
    /\ stack = <<>>
    /\ nodes = <<>>
    /\ tree = None
    /\ root = <<>>
    /\ builds = 0
    /\ out = NoOutput

\* one build on a zone with any kinds of records
Init ==
    /\ env = [includes |-> MaxIncludes, odd |-> MaxOdd, builds |-> 1]
    /\ Start

\* one build on a larger zone of plain records
WideInit ==
    /\ env = [includes |-> MaxIncludes + 1, odd |-> 0, builds |-> 1]
    /\ Start

\* one TreeBuilder used for two builds, on a smaller zone
ReuseInit ==
    /\ env = [includes |-> MaxIncludes - 1, odd |-> MaxOdd, builds |-> 2]
    /\ Start

\* a build whose resolver keeps the visited set of the call before, as a
\* default argument visited=set() would
Build_keeping_visited(domain) ==
    /\ Idle
    /\ builds < env.builds
    /\ calls' = <<Frame(domain)>>
    /\ events' = <<>>
    /\ tree' = None
    /\ root' = domain
    /\ out' = NoOutput
    /\ UNCHANGED <<env, dns, visited, stack, nodes, builds>>

\* build(domain) is called (83-88): tree = None, the root generator is made
Build(domain) ==
    /\ Idle
    /\ builds < env.builds
    /\ calls' = <<Frame(domain)>>
    /\ visited' = {}
    /\ events' = <<>>
    /\ tree' = None
    /\ root' = domain
    /\ out' = NoOutput
    /\ UNCHANGED <<env, dns, stack, nodes, builds>>

\* 135-136: the domain is in visited, the generator ends without an event
Skip ==
    /\ ~Idle
    /\ Top.pc = "start"
    /\ already_visited(Top.domain, visited)
    /\ calls' = Pop
    /\ builds' = Returned
    /\ UNCHANGED <<env, dns, visited, events, stack, nodes, tree, root, out>>

\* 137-139: the domain is added to visited and (enter, domain) is yielded
Enter ==
    /\ ~Idle
    /\ Top.pc = "start"
    /\ ~already_visited(Top.domain, visited)
    /\ visited' = visited \cup {Top.domain}
    /\ Yield(enter_event(Top.domain))
    /\ calls' = SetTop([Top EXCEPT !.pc = "query"])
    /\ UNCHANGED <<env, dns, root, builds, out>>

\* 142-144: the lookup succeeds, the include terms of the SPF record are kept
QueryOk ==
    /\ ~Idle
    /\ Top.pc = "query"
    /\ \E ans \in Answers(Top.domain) :
          /\ ans.ok
          /\ dns' = Asked(Top.domain, ans)
          /\ calls' = SetTop([Top EXCEPT !.pc = "loop",
                                         !.todo = include_terms(ans.records)])
    /\ UNCHANGED <<env, visited, events, stack, nodes, tree, root, builds, out>>

\* 148-149: the lookup raises DNSException, which is logged and dropped
QueryFail ==
    /\ ~Idle
    /\ Top.pc = "query"
    /\ FAIL \in Answers(Top.domain)
    /\ dns' = Asked(Top.domain, FAIL)
    /\ calls' = except_DNSException(calls)
    /\ UNCHANGED <<env, visited, events, stack, nodes, tree, root, builds, out>>

\* the loop of line 144 taking the include terms from the last one
Recurse_from_last ==
    /\ ~Idle
    /\ Top.pc = "loop"
    /\ Top.todo # <<>>
    /\ calls' = Append(SetTop([Top EXCEPT !.todo = SubSeq(@, 1, Len(@) - 1)]),
                       Frame(include_name(Top.todo[Len(Top.todo)])))
    /\ UNCHANGED <<env, dns, visited, events, stack, nodes, tree, root, builds, out>>

\* 144-146: the next include term: the nested generator is made and started
Recurse ==
    /\ ~Idle
    /\ Top.pc = "loop"
    /\ Top.todo # <<>>
    /\ calls' = Append(SetTop([Top EXCEPT !.todo = Tail(@)]),
                       Frame(include_name(Head(Top.todo))))
    /\ UNCHANGED <<env, dns, visited, events, stack, nodes, tree, root, builds, out>>

\* 151: (exit, domain) is yielded and the generator ends; when it was the
\* root generator, build's loop ends and build returns tree (98)
Exit ==
    /\ ~Idle
    /\ Top.pc = "loop"
    /\ Top.todo = <<>>
    /\ Yield(exit_event(Top.domain))
    /\ calls' = Pop
    /\ builds' = Returned
    /\ UNCHANGED <<env, dns, visited, root, out>>

\* Tree.bigrams() is called on the tree that build returned (201)
CallBigrams ==
    /\ Idle
    /\ tree # None
    /\ out' = [op |-> "bigrams", val |-> bigrams(nodes, tree)]
    /\ UNCHANGED <<env, dns, calls, visited, events, stack, nodes, tree, root, builds>>

\* Tree.each_node() is called on the tree that build returned (197)
CallEachNode ==
    /\ Idle
    /\ tree # None
    /\ out' = [op |-> "each_node", val |-> each_node(nodes, {}, tree).yielded]
    /\ UNCHANGED <<env, dns, calls, visited, events, stack, nodes, tree, root, builds>>

\* Tree.to_json() is called on the tree that build returned (206)
CallToJson ==
    /\ Idle
    /\ tree # None
    /\ \E val \in to_json(nodes, tree) : out' = [op |-> "to_json", val |-> val]
    /\ UNCHANGED <<env, dns, calls, visited, events, stack, nodes, tree, root, builds>>

Step ==
    \/ Skip
    \/ Enter
    \/ QueryOk
    \/ QueryFail
    \/ Recurse
    \/ Exit

Next ==
    \/ \E d \in Domains : Build(d) /\ Index(d) <= NumMet + 1
    \/ Step
    \/ CallBigrams
    \/ CallEachNode
    \/ CallToJson

Spec == Init /\ [][Next]_vars

\* the builds alone, without calls on the trees returned
BuildNext ==
    \/ \E d \in Domains : Build(d) /\ Index(d) <= NumMet + 1
    \/ Step

WideSpec == WideInit /\ [][BuildNext]_vars

ReuseSpec == ReuseInit /\ [][BuildNext]_vars

(* ------------- trees made directly with Node and add_child ------------- *)
TreeNames == { <<Labels[i]>> : i \in 1..NumNames }

\* Tree(Node(name)) (46-49, 159-160)
MakeTree(name) ==
    /\ nodes = <<>>
    /\ nodes' = <<Node(name)>>
    /\ tree' = 1
    /\ out' = NoOutput
    /\ UNCHANGED <<env, dns, calls, visited, events, stack, root, builds>>

\* self.add_child(name) on a node of the tree; out keeps the node returned
AddChild(self, name) ==
    /\ Len(nodes) < MaxNodes
    /\ LET r == add_child(nodes, self, name)
       IN  /\ nodes' = r.heap
           /\ out' = [op |-> "add_child", val |-> <<self, name, r.node>>]
    /\ UNCHANGED <<env, dns, calls, visited, events, stack, tree, root, builds>>

TreeNext ==
    \/ \E name \in TreeNames : MakeTree(name)
    \/ \E self \in 1..Len(nodes), name \in TreeNames : AddChild(self, name)
    \/ CallBigrams
    \/ CallEachNode

TreeSpec == Init /\ [][TreeNext]_vars

(* ------------------- definitions used by the properties ---------------- *)
\* build has returned
Done == Idle /\ builds = 1

Typ(ev) == ev[1]
Name(ev) == ev[2]

CountTyp(typ, k) == Cardinality({ i \in 1..k : Typ(events[i]) = typ })

\* the domains entered and not yet exited after the first k events, innermost
\* last; "unmatched" when an exit closes anything but the innermost of them
RECURSIVE OpenAfter(_)
OpenAfter(k) ==
    IF k = 0 THEN <<>>
    ELSE LET open == OpenAfter(k - 1)
             ev == events[k]
         IN  IF open = <<"unmatched">> THEN open
             ELSE IF Typ(ev) = "enter" THEN Append(open, Name(ev))
             ELSE IF open # <<>> /\ open[Len(open)] = Name(ev)
                  THEN SubSeq(open, 1, Len(open) - 1)
             ELSE <<"unmatched">>

Failed(d) == d \in DOMAIN dns /\ ~dns[d].ok

\* the names the code resolves for the include terms of an answered name
NamesResolved(d) ==
    LET terms == include_terms(dns[d].records)
    IN  { include_name(terms[i]) : i \in 1..Len(terms) }

Ids == 1..Len(nodes)
Children(n) == Range(nodes[n].children)
Parents(n) == { p \in Ids : n \in Children(p) }

\* the nodes from n up to the root of its tree, n first
RECURSIVE PathUp(_)
PathUp(n) ==
    IF Parents(n) = {} THEN <<n>>
    ELSE <<n>> \o PathUp(CHOOSE p \in Parents(n) : TRUE)

RECURSIVE Below(_)
Below(n) == {n} \cup UNION { Below(c) : c \in Children(n) }

\* the nodes of the heap form one tree under head
WellFormedTree(head) ==
    /\ head \in Ids
    /\ Parents(head) = {}
    /\ \A n \in Ids \ {head} : Cardinality(Parents(n)) = 1
    /\ \A n \in Ids : Len(nodes[n].children) = Cardinality(Children(n))
    /\ Below(head) = Ids

(* ------------------------------ properties ------------------------------ *)
\* C1: the events yielded so far are correctly parenthesized: at every prefix
\* there are at least as many enter as exit events, every exit(d) closes the
\* innermost open enter, which is an enter(d), and when build has returned
\* the enter and exit events are equal in number and nothing is left open.
C1_Parenthesized ==
    /\ \A k \in 0..Len(events) : CountTyp("enter", k) >= CountTyp("exit", k)
    /\ \A k \in 0..Len(events) : OpenAfter(k) # <<"unmatched">>
    /\ \A k \in 1..Len(events) : Typ(events[k]) \in {"enter", "exit"}
    /\ Done => /\ CountTyp("enter", Len(events)) = CountTyp("exit", Len(events))
               /\ OpenAfter(Len(events)) = <<>>

\* a finished traversal with nested includes and a failing lookup
C1_Witness ==
    /\ Done
    /\ Len(events) >= 6
    /\ \E d \in visited : Failed(d)
    /\ \E k \in 1..Len(events) : Len(OpenAfter(k)) >= 3

\* what a call still has to do, counted so that every step lowers the sum
Weight(f) ==
    IF f.pc = "start" THEN 1
    ELSE IF f.pc = "query" THEN 2 + 2 * env.includes
    ELSE 1 + 2 * Len(f.todo)

RECURSIVE SumWeight(_)
SumWeight(cs) == IF cs = <<>> THEN 0 ELSE Weight(Head(cs)) + SumWeight(Tail(cs))

\* the names a traversal can meet: those of the zone, and those names with
\* the closing quote of a record left on them
NumNamesMet == 2 * NumDomains

Measure ==
    (NumNamesMet - Cardinality(visited)) * (2 + 2 * env.includes) + SumWeight(calls)

\* C2: every traversal ends and build returns.  The events are never more
\* than an enter and an exit for each name visited; while build runs the
\* generator has a next step, and every step lowers Measure, a number that
\* never goes below zero; and the generator has ended only when build has
\* returned.
C2_Terminates ==
    /\ [](Len(events) <= 2 * Cardinality(visited))
    /\ [](Cardinality(visited) <= NumNamesMet)
    /\ [](~Idle => ENABLED Step)
    /\ [][~Idle => Measure' < Measure]_vars
    /\ [](Idle /\ events # <<>> => builds = 1)

\* a finished traversal of a zone where an included domain includes the root
C2_Witness ==
    /\ Done
    /\ \E d \in visited \ {root} : dns[d].ok /\ root \in NamesResolved(d)
    /\ \E d \in visited : dns[d].ok /\ d \in NamesResolved(d)

\* C3: no domain is entered twice: the enter events carry pairwise different
\* names, these names are the visited set, and a call on a name that is in
\* visited yields nothing: the events are exactly one enter per name visited
\* and one exit per name whose call has ended.
C3_EnteredOnce ==
    LET entered == { k \in 1..Len(events) : Typ(events[k]) = "enter" }
        running == { i \in 1..Len(calls) : calls[i].pc # "start" }
    IN  /\ \A j, k \in entered : Name(events[j]) = Name(events[k]) => j = k
        /\ { Name(events[k]) : k \in entered } = visited
        /\ Len(events) = 2 * Cardinality(visited) - Cardinality(running)

\* a finished traversal in which a call was made on a name already visited:
\* the zone names more includes than the tree has edges
C3_Witness ==
    /\ Done
    /\ SumLen(DOMAIN dns) > Cardinality(visited) - 1
    /\ Cardinality(visited) >= 3

\* the text of a TXT record starts, inside its quotes, with v=spf1
StartsWithSpf(r) ==
    \E k \in 1..Len(r) : r[k] = "v=spf1" /\ \A j \in 1..(k - 1) : r[j] = Q

\* the lookup of d failed, or gave TXT records none of which is an SPF record
NoSpfRecord(d) ==
    \/ ~dns[d].ok
    \/ \A i \in 1..Len(dns[d].records) : ~StartsWithSpf(dns[d].records[i])

\* C4: when the root domain has no SPF record (its lookup fails, or none of
\* its TXT records starts with v=spf1), build returns a tree of one node,
\* named as the root domain, without children.
C4_NoSpfSingleNode ==
    Done /\ NoSpfRecord(root) =>
        /\ tree # None
        /\ Len(nodes) = 1
        /\ nodes[tree].name = root
        /\ nodes[tree].children = <<>>
        /\ nodes[tree].children_names = {}

\* build has returned for a root whose TXT records exist, hold include terms
\* and are no SPF record
C4_Witness ==
    /\ Done
    /\ dns[root].ok
    /\ NoSpfRecord(root)
    /\ \E i \in 1..Len(dns[root].records) :
          \E k \in 1..Len(dns[root].records[i]) : dns[root].records[i][k] = "include"

\* the node of the tree that carries the name d, if there is one
NodesNamed(d) == { n \in Ids : nodes[n].name = d }

\* C5: a failing lookup is absorbed where it happens.  The enter of a failing
\* domain is followed at once by its exit; when build has returned, every
\* name resolved from an include term of an answered domain has been
\* traversed, also the terms after one whose lookup failed; and the tree
\* returned is well formed, with every failing domain a node without children.
C5_FailureAbsorbed ==
    /\ \A k \in 1..(Len(events) - 1) :
          Typ(events[k]) = "enter" /\ Failed(Name(events[k]))
              => events[k + 1] = <<"exit", Name(events[k])>>
    /\ Done =>
          /\ \A d \in visited : dns[d].ok => NamesResolved(d) \subseteq visited
          /\ tree # None
          /\ WellFormedTree(tree)
          /\ \A d \in visited : Failed(d) =>
                /\ NodesNamed(d) # {}
                /\ \A n \in NodesNamed(d) : nodes[n].children = <<>>

\* build has returned after a lookup failed on the first include of a domain
\* and the include after it was entered
C5_Witness ==
    /\ Done
    /\ \E k \in 1..(Len(events) - 2) :
          /\ Typ(events[k]) = "enter"
          /\ Failed(Name(events[k]))
          /\ Name(events[k]) \in Domains
          /\ Typ(events[k + 2]) = "enter"
          /\ ~Failed(Name(events[k + 2]))

\* C6: the cycle guard, on the tree: at any time no node carries the name of
\* one of its ancestors; and when A includes just B and B includes just A,
\* build(A) returns A with the one child B, and B has no child.
C6_NoNameTwiceOnPath ==
    /\ \A n \in Ids :
          LET path == PathUp(n)
          IN  \A i, j \in 1..Len(path) :
                  nodes[path[i]].name = nodes[path[j]].name => i = j
    /\ \A d \in visited :
          (Done /\ d # root /\ dns[root].ok /\ dns[d].ok
                /\ NamesResolved(root) = {d} /\ NamesResolved(d) = {root})
              => /\ Cardinality(Children(tree)) = 1
                 /\ \A c \in Children(tree) :
                       nodes[c].name = d /\ nodes[c].children = <<>>

\* build has returned for a root A that includes B, where B includes A
C6_Witness ==
    /\ Done
    /\ \E d \in visited \ {root} :
          /\ dns[root].ok /\ dns[d].ok
          /\ NamesResolved(root) = {d}
          /\ NamesResolved(d) = {root}
          /\ \E c \in Children(tree) : nodes[c].name = d

\* C7: build returns a Tree, and its head is the Node made for the first
\* enter event: it carries the name passed to build, and every node made
\* during the traversal is in the tree under it.
C7_ReturnsRootTree ==
    Done =>
        /\ tree # None
        /\ tree = 1
        /\ events[1] = <<"enter", root>>
        /\ nodes[tree].name = root
        /\ Below(tree) = Ids
        /\ Len(nodes) = Cardinality(visited)

\* build has returned a tree of several levels
C7_Witness ==
    /\ Done
    /\ \E n \in Ids : Len(PathUp(n)) >= 3

\* The include relation as the records state it: the SPF record of a domain
\* is its first TXT record whose text starts with v=spf1, and the domain
\* includes every name written after "include:" in a term of that text.
SpfRecordOf(d) ==
    LET recs == dns[d].records
    IN  recs[CHOOSE i \in 1..Len(recs) :
                 StartsWithSpf(recs[i]) /\ \A j \in 1..(i - 1) : ~StartsWithSpf(recs[j])]

Includes(d) ==
    IF d \notin DOMAIN dns \/ NoSpfRecord(d) THEN {}
    ELSE LET terms == split(strip(SpfRecordOf(d), Q))
         IN  { SubSeq(terms[i], 3, Len(terms[i])) :
                   i \in { j \in 1..Len(terms) : startswith(terms[j], <<"include", COLON>>) } }

RECURSIVE ReachableFrom(_)
ReachableFrom(S) ==
    LET T == S \cup UNION { Includes(d) : d \in S }
    IN  IF T = S THEN S ELSE ReachableFrom(T)

Reachable == ReachableFrom({root})

IncludeEdges == UNION { { <<p, c>> : c \in Includes(p) } : p \in Reachable }

\* no domain is reached from the root by two different paths
OnePathToEach ==
    \A d \in Reachable :
        Cardinality({ p \in Reachable : d \in Includes(p) }) = IF d = root THEN 0 ELSE 1

\* C8: when no domain is reachable from the root by two different paths, the
\* set of the bigrams of the tree that build returned is the set of the
\* include edges between the domains reachable from the root.
C8_BigramsAreIncludeEdges ==
    out.op = "bigrams" /\ OnePathToEach => Range(out.val) = IncludeEdges

\* every SPF record answered so far ends with a term that is no include
NoIncludeIsLastTerm ==
    \A d \in DOMAIN dns : \A i \in 1..Len(dns[d].records) :
        LET r == dns[d].records[i]
        IN  StartsWithSpf(r) =>
                \/ SubSeq(r, Len(r) - 1, Len(r)) = <<"~all", Q>>
                \/ r = <<Q, "v=spf1", Q>>

\* no include term answered so far has a colon in the text after "include:"
NoColonInName ==
    \A d \in DOMAIN dns : \A i \in 1..Len(dns[d].records) :
        LET r == dns[d].records[i]
        IN  \A k \in 2..(Len(r) - 2) : r[k] = COLON => r[k - 1] = "include" /\ r[k + 2] # COLON

\* what is left of C8 in the code: the equality holds for the zones in which
\* no SPF record ends with an include term or has a colon in an include name
BigramsAreIncludeEdgesUnlessLast ==
    NoIncludeIsLastTerm /\ NoColonInName => C8_BigramsAreIncludeEdges

\* the pairs (parent name, child name) of the edges of the tree
EdgePairs ==
    UNION { { <<nodes[p].name, nodes[c].name>> : c \in Children(p) } : p \in Ids }

\* C9: the pairs that bigrams() yields are, as a set, the (parent name, child
\* name) pairs of the edges of the tree: no edge is missing and every pair
\* is an edge; for the edges (A,B), (B,C) they are (A,B) and (B,C).
C9_BigramsAreEdges ==
    out.op = "bigrams" =>
        /\ Range(out.val) = EdgePairs
        /\ \A a, b, c \in TreeNames :
              (/\ Len(nodes) = 3
               /\ nodes[1].name = a /\ nodes[2].name = b /\ nodes[3].name = c
               /\ nodes[1].children = <<2>> /\ nodes[2].children = <<3>>)
                  => Range(out.val) = {<<a, b>>, <<b, c>>}

\* bigrams() was called on a chain of three nodes with different names
C9_Witness ==
    /\ out.op = "bigrams"
    /\ Len(nodes) = 3
    /\ nodes[1].children = <<2>> /\ nodes[2].children = <<3>>
    /\ Cardinality({ nodes[n].name : n \in Ids }) = 3
    /\ Len(out.val) = 2

\* the nodes under n in pre-order: n, then the subtrees of its children in
\* the order of the children list
RECURSIVE PreOrder(_)
RECURSIVE PreOrderFrom(_, _)
PreOrderFrom(n, i) ==
    IF i > Len(nodes[n].children) THEN <<>>
    ELSE PreOrder(nodes[n].children[i]) \o PreOrderFrom(n, i + 1)
PreOrder(n) == <<n>> \o PreOrderFrom(n, 1)

\* C10: on a tree that build returned, each_node() yields every node of the
\* tree once, in pre-order.
C10_EachNodePreOrder ==
    out.op = "each_node" /\ builds = 1 =>
        /\ out.val = PreOrder(tree)
        /\ Range(out.val) = Below(tree)
        /\ \A i, j \in 1..Len(out.val) : out.val[i] = out.val[j] => i = j

\* each_node() was called on a built tree with a node of two children, one
\* of them with a child of its own
C10_Witness ==
    /\ out.op = "each_node"
    /\ builds = 1
    /\ \E n \in Ids : Len(nodes[n].children) >= 2
    /\ \E n \in Ids : Len(PathUp(n)) >= 3

\* C11: the list that to_json serializes for a built tree holds one object
\* for each node of the tree and nothing else, and the children of the object
\* of a node are the names of the children of that node, each once, in any
\* order; for the chain A -> B -> C the objects are {A,[B]}, {B,[C]}, {C,[]}.
C11_OneRecordPerNode ==
    out.op = "to_json" /\ builds = 1 =>
        /\ Len(out.val) = Cardinality(Below(tree))
        /\ \A n \in Below(tree) :
              /\ Cardinality({ i \in 1..Len(out.val) : out.val[i].name = nodes[n].name }) = 1
              /\ \A i \in 1..Len(out.val) :
                    out.val[i].name = nodes[n].name =>
                        /\ Range(out.val[i].children) = { nodes[c].name : c \in Children(n) }
                        /\ Len(out.val[i].children) = Len(nodes[n].children)
        /\ \A b, c \in visited :
              (/\ Len(nodes) = 3
               /\ nodes[1].children = <<2>> /\ nodes[2].children = <<3>>
               /\ nodes[2].name = b /\ nodes[3].name = c)
                  => Range(out.val) = { [name |-> root, children |-> <<b>>],
                                        [name |-> b, children |-> <<c>>],
                                        [name |-> c, children |-> <<>>] }

\* to_json() was called on a built chain of three domains, and on a built
\* tree with a node of two children
C11_Witness ==
    /\ out.op = "to_json"
    /\ builds = 1
    /\ Len(nodes) = 3
    /\ nodes[1].children = <<2>> /\ nodes[2].children = <<3>>
    /\ Len(out.val) = 3

\* C12: after any sequence of add_child calls, no two entries of the children
\* of a node share a name and children_names is the set of the names of the
\* entries; the node that add_child returns is the entry of children with
\* the name asked for; and add_child with a name already present leaves the
\* nodes as they are and returns the entry that carries the name, the same
\* one as the call before it with that name.
C12_AddChildIdempotent ==
    /\ [](\A n \in Ids :
            /\ \A i, j \in 1..Len(nodes[n].children) :
                  nodes[nodes[n].children[i]].name = nodes[nodes[n].children[j]].name
                      => i = j
            /\ nodes[n].children_names = { nodes[c].name : c \in Children(n) })
    /\ [](out.op = "add_child" =>
            /\ out.val[3] \in Children(out.val[1])
            /\ nodes[out.val[3]].name = out.val[2])
    /\ [][\A self \in Ids, name \in TreeNames :
             name \in nodes[self].children_names /\ AddChild(self, name) =>
                 /\ nodes' = nodes
                 /\ out'.val[3] \in Children(self)
                 /\ nodes[out'.val[3]].name = name
                 /\ (out.op = "add_child" /\ out.val[1] = self /\ out.val[2] = name
                        => out'.val[3] = out.val[3])]_vars

\* add_child was called with a name that the node already has as a child,
\* the second of its children
C12_Witness ==
    /\ out.op = "add_child"
    /\ Len(nodes[out.val[1]].children) >= 2
    /\ out.val[3] = nodes[out.val[1]].children[2]
    /\ out.val[3] < Len(nodes)

\* the names resolved for the include terms of an answered name, in order
NamesInOrder(d) ==
    LET terms == include_terms(dns[d].records)
    IN  [i \in 1..Len(terms) |-> include_name(terms[i])]

\* p and q were traversed in distinct branches: each is on a node of the
\* tree and neither node is under the other
DistinctBranches(p, q) ==
    /\ p # q
    /\ \E n \in NodesNamed(p), m \in NodesNamed(q) : n \notin Below(m) /\ m \notin Below(n)

\* d is included by the two answered domains p and q of distinct branches
IncludedByBoth(p, q, d) ==
    /\ DistinctBranches(p, q)
    /\ dns[p].ok /\ dns[q].ok
    /\ d \in NamesResolved(p) \cap NamesResolved(q)

HasChildNamed(p, d) ==
    \E n \in NodesNamed(p) : \E c \in Children(n) : nodes[c].name = d

\* C13 as stated: a domain included by two domains that were traversed in
\* distinct branches is a child under both of them in the tree returned.
C13_ChildUnderBothParents ==
    Done => \A p, q, d \in visited :
                IncludedByBoth(p, q, d) => HasChildNamed(p, d) /\ HasChildNamed(q, d)

\* C13 amended: the visited set is shared by all the branches of a traversal,
\* so a domain included by two domains of distinct branches is on one Node
\* of the tree returned, a child of one of the two at most; when A includes
\* B and C, and B and C both include just D, then D is the child of B and C
\* has no child.
C13_ChildUnderOneParent ==
    Done =>
        /\ \A d \in visited :
              /\ Cardinality(NodesNamed(d)) = 1
              /\ \A n \in NodesNamed(d) : Cardinality(Parents(n)) = IF d = root THEN 0 ELSE 1
        /\ \A p, q, d \in visited :
              IncludedByBoth(p, q, d) => ~(HasChildNamed(p, d) /\ HasChildNamed(q, d))
        /\ \A b, c, d \in visited :
              (/\ Cardinality({root, b, c, d}) = 4
               /\ dns[root].ok /\ dns[b].ok /\ dns[c].ok
               /\ NamesInOrder(root) = <<b, c>>
               /\ NamesInOrder(b) = <<d>> /\ NamesInOrder(c) = <<d>>)
                  => /\ HasChildNamed(b, d)
                     /\ \A n \in NodesNamed(c) : nodes[n].children = <<>>

\* build has returned for a root A that includes B and C, which both
\* include D
C13_Witness ==
    /\ Done
    /\ \E b, c, d \in visited :
          /\ Cardinality({root, b, c, d}) = 4
          /\ dns[root].ok /\ dns[b].ok /\ dns[c].ok
          /\ NamesInOrder(root) = <<b, c>>
          /\ NamesInOrder(b) = <<d>> /\ NamesInOrder(c) = <<d>>
          /\ IncludedByBoth(b, c, d)

\* the tree under node n of a heap as a value: the name, the children_names
\* and the trees under the children, in order
RECURSIVE TreeOf(_, _)
TreeOf(heap, n) ==
    [name |-> heap[n].name,
     children_names |-> heap[n].children_names,
     children |-> [i \in 1..Len(heap[n].children) |-> TreeOf(heap, heap[n].children[i])]]

\* the tree that a new TreeBuilder returns for the root, under the answers
\* that the DNS has given
FreshTree ==
    LET st == fresh_build(root)
    IN  IF st.tree = None THEN <<>> ELSE TreeOf(st.nodes, st.tree)

\* C14: builds share no state, also on one TreeBuilder: every build starts
\* with an empty stack and an empty visited set, and ends with an empty
\* stack; the tree that a build returns, the second one on this TreeBuilder
\* as well as the first, is equal to the tree that a new TreeBuilder returns
\* for the same domain under the same DNS data.
C14_BuildsShareNothing ==
    /\ [][\A d \in Domains : Build(d) => stack = <<>> /\ visited' = {}]_vars
    /\ [](Idle => stack = <<>>)
    /\ [](Idle /\ builds >= 1 => tree # None /\ TreeOf(nodes, tree) = FreshTree)

\* the second build on a TreeBuilder has returned a tree for a domain that
\* the first build had left without children below its root, and that has
\* children now
C14_Witness ==
    /\ Idle
    /\ builds = 2
    /\ tree > 2
    /\ root # nodes[1].name
    /\ \E n \in 1..(tree - 1) : nodes[n].name = root /\ nodes[n].children = <<>>
    /\ nodes[tree].children # <<>>

\* C15 as stated: only the exit event that leaves the stack empty creates a
\* Tree; the exit of a nested domain pops the stack and creates no Tree.
C15_TreeCreatedOnce ==
    [][Exit => /\ stack' = SubSeq(stack, 1, Len(stack) - 1)
               /\ IF Len(stack) = 1 THEN tree' = stack[1] ELSE tree' = tree]_vars

\* C15 amended: during one build a Tree is created at every exit event, the
\* nested ones too, from the Node popped off the stack, and takes the place
\* of the one created before; an enter event creates none; the Tree that
\* build returns is the last one, created by the exit that leaves the stack
\* empty, and its head is the root Node.
C15_TreeCreatedAtEveryExit ==
    /\ [][Exit => /\ stack' = SubSeq(stack, 1, Len(stack) - 1)
                  /\ tree' = stack[Len(stack)]
                  /\ tree' # tree]_vars
    /\ [][Enter => tree' = tree]_vars
    /\ [](Done => /\ stack = <<>>
                  /\ tree # None
                  /\ nodes[tree].name = root
                  /\ Parents(tree) = {})
    /\ [](~Idle /\ tree # None => \E k \in 1..Len(events) :
                                      events[k] = <<"exit", nodes[tree].name>>)

\* a build is running, the exit of a nested domain has been handled and has
\* left a Tree whose head has a parent
C15_Witness ==
    /\ ~Idle
    /\ builds = 0
    /\ stack # <<>>
    /\ tree # None
    /\ Parents(tree) # {}

\* C16: at every point of a build the stack is the path of Nodes from the
\* root to the domain being traversed: its depth is the number of enter
\* events less the number of exit events handled, its bottom is the root
\* Node, each element above the bottom is a child of the element below it,
\* its names are the domains entered and not yet exited, outermost first;
\* the Node popped on exit(name) has that name; and the stack is empty at an
\* enter event only for the first event of the build.
C16_StackIsPath ==
    /\ [](Len(stack) + CountTyp("exit", Len(events)) = CountTyp("enter", Len(events)))
    /\ [](stack # <<>> => Parents(stack[1]) = {} /\ nodes[stack[1]].name = root)
    /\ [](\A i \in 2..Len(stack) : stack[i] \in Children(stack[i - 1]))
    /\ []([i \in 1..Len(stack) |-> nodes[stack[i]].name] = OpenAfter(Len(events)))
    /\ [][Exit => /\ stack # <<>>
                  /\ events' = Append(events, <<"exit", nodes[stack[Len(stack)]].name>>)
                  /\ stack' = SubSeq(stack, 1, Len(stack) - 1)]_vars
    /\ [][Enter => /\ (stack = <<>> <=> events = <<>>)
                   /\ Len(stack') = Len(stack) + 1
                   /\ nodes'[stack'[Len(stack')]].name = Top.domain]_vars

\* the stack is three Nodes deep after an exit event has popped it
C16_Witness ==
    /\ Len(stack) >= 3
    /\ \E k \in 1..Len(events) : Typ(events[k]) = "exit"

\* the addresses of the nodes 1..k: the address of a node is the places,
\* among the children of each node on the way down from the head, of the
\* child to go to (a child is made after its parent, so its parent comes
\* before it in the heap)
RECURSIVE Addrs(_)
Addrs(k) ==
    IF k = 0 THEN <<>>
    ELSE LET prev == Addrs(k - 1)
         IN  IF Parents(k) = {} THEN Append(prev, <<>>)
             ELSE LET p == CHOOSE p \in Parents(k) : TRUE
                      i == CHOOSE i \in 1..Len(nodes[p].children) : nodes[p].children[i] = k
                  IN  Append(prev, Append(prev[p], i))

IsPrefix(a, b) == Len(a) <= Len(b) /\ SubSeq(b, 1, Len(a)) = a

\* post-order of the edges, each edge named by the address of its child node:
\* the edge to d comes before the edge to c when d is under c, or when d is
\* in an earlier child subtree than c of the node where their paths fork
EdgeBefore(ad, ac) ==
    /\ ad # ac
    /\ \/ IsPrefix(ac, ad)
       \/ \E k \in 1..Len(ad) :
              /\ k <= Len(ac)
              /\ SubSeq(ad, 1, k - 1) = SubSeq(ac, 1, k - 1)
              /\ ad[k] < ac[k]

\* the places in post-order of the edges to the nodes 1..k; 0 for the head
RECURSIVE EdgePos(_, _)
EdgePos(addr, k) ==
    IF k = 0 THEN <<>>
    ELSE Append(EdgePos(addr, k - 1),
                IF addr[k] = <<>> THEN 0
                ELSE 1 + Cardinality({ d \in DOMAIN addr :
                                         addr[d] # <<>> /\ EdgeBefore(addr[d], addr[k]) }))

\* C17: bigrams() yields the edges in post-order: one pair for every node
\* but the head, the pair of the edge (p, c) after the pairs of all the edges
\* in the subtree of c, and the pairs of an earlier child subtree of p, its
\* connecting edge included, before those of a later one; a second call
\* yields the same sequence.
C17_BigramsPostOrder ==
    /\ [](out.op = "bigrams" =>
            LET addr == Addrs(Len(nodes))
                pos == EdgePos(addr, Len(nodes))
            IN  /\ Len(out.val) = Len(nodes) - 1
                /\ \A c \in Ids \ {tree} :
                      /\ pos[c] \in 1..Len(out.val)
                      /\ \A p \in Parents(c) :
                            out.val[pos[c]] = <<nodes[p].name, nodes[c].name>>
                      /\ \A d \in Ids \ {c} :
                            IsPrefix(addr[c], addr[d]) => pos[d] < pos[c]
                      /\ \A p \in Parents(c), d \in Ids :
                            (/\ IsPrefix(addr[p], addr[d]) /\ d # p
                             /\ addr[d][Len(addr[p]) + 1] < addr[c][Len(addr[p]) + 1])
                                => pos[d] < pos[c])
    /\ [][out.op = "bigrams" /\ CallBigrams => out' = out]_vars

\* bigrams() was called on a tree whose head has two children, the first of
\* them with a child of its own, and two nodes carry the same name
C17_Witness ==
    /\ out.op = "bigrams"
    /\ Len(nodes[tree].children) >= 2
    /\ nodes[nodes[tree].children[1]].children # <<>>
    /\ Cardinality({ nodes[n].name : n \in Ids }) < Len(nodes)

\* the places of the enter and of the exit event of a domain traversed
EnterPos(d) == CHOOSE k \in 1..Len(events) : events[k] = <<"enter", d>>
ExitPos(d) == CHOOSE k \in 1..Len(events) : events[k] = <<"exit", d>>

\* for every include term of d, whether it names a domain that was not
\* visited yet when the term was reached: one entered after d, and not
\* during the traversal of an earlier include term of d
FreshTerms(d) ==
    LET t == NamesInOrder(d)
        e == [i \in DOMAIN t |-> EnterPos(t[i])]
        x == [i \in DOMAIN t |-> ExitPos(t[i])]
        ed == EnterPos(d)
    IN  [i \in DOMAIN t |->
            /\ e[i] > ed
            /\ \A j \in 1..(i - 1) : e[j] > ed => ~(e[j] <= e[i] /\ e[i] <= x[j])]

\* the elements of t at the places where keep is true, in order
RECURSIVE Kept(_, _, _)
Kept(t, keep, i) ==
    IF i > Len(t) THEN <<>>
    ELSE (IF keep[i] THEN <<t[i]>> ELSE <<>>) \o Kept(t, keep, i + 1)

ChildNames(n) == [i \in 1..Len(nodes[n].children) |-> nodes[nodes[n].children[i]].name]

\* C18: when build has returned, for every answered domain d: the include
\* terms of d that named a domain not yet visited were traversed in the
\* order of the terms, the events of one, from its enter to its exit, all
\* before the enter of the next and inside the enter and exit of d; and the
\* children of the Node of d are those domains, in that order.
C18_IncludeOrder ==
    Done => \A d \in visited :
        IF dns[d].ok
        THEN LET t == NamesInOrder(d)
                 fresh == FreshTerms(d)
             IN  /\ \A n \in NodesNamed(d) : ChildNames(n) = Kept(t, fresh, 1)
                 /\ \A i, j \in DOMAIN t :
                       i < j /\ fresh[i] /\ fresh[j] =>
                           /\ EnterPos(d) < EnterPos(t[i])
                           /\ ExitPos(t[i]) < EnterPos(t[j])
                           /\ ExitPos(t[j]) < ExitPos(d)
        ELSE \A n \in NodesNamed(d) : ChildNames(n) = <<>>

\* build has returned a tree with a Node of two children whose domain has an
\* include term, not the last one, for a domain visited before
C18_Witness ==
    /\ Done
    /\ \E d \in visited :
          /\ dns[d].ok
          /\ \E n \in NodesNamed(d) : Len(nodes[n].children) >= 2
          /\ \E i \in 1..(Len(NamesInOrder(d)) - 1) : ~FreshTerms(d)[i]

\* C19: when build has returned, the names of the nodes of the tree are
\* exactly the domains reachable from the root through the include relation,
\* a domain whose lookup fails or that has no SPF record including nothing,
\* and each of them is the name of exactly one node.
C19_NamesAreReachable ==
    Done =>
        /\ { nodes[n].name : n \in Below(tree) } = Reachable
        /\ \A d \in Reachable : Cardinality(NodesNamed(d)) = 1

\* what is left of C19 in the code: it holds for the zones in which no SPF
\* record ends with an include term or has a colon in an include name
NamesAreReachableUnlessLast ==
    NoIncludeIsLastTerm /\ NoColonInName => C19_NamesAreReachable

\* the first TXT record whose text starts, inside its quotes, with v=spf1
\* is the one whose terms are taken
TakesFirstSpfRecord(d) ==
    IF NoSpfRecord(d) THEN include_terms(dns[d].records) = <<>>
    ELSE include_terms(dns[d].records) = SelectSeq(split(SpfRecordOf(d)), is_include)

\* the names written after "include:" in the terms of the SPF record, in order
NamesWritten(d) ==
    IF NoSpfRecord(d) THEN <<>>
    ELSE LET terms == SelectSeq(split(strip(SpfRecordOf(d), Q)),
                                LAMBDA t : startswith(t, <<"include", COLON>>))
         IN  [i \in 1..Len(terms) |-> SubSeq(terms[i], 3, Len(terms[i]))]

\* C20: for every domain whose lookup gave TXT records, the Resolver takes
\* the first record whose text, the surrounding quotes stripped, starts with
\* v=spf1, and the names it resolves are, term by term, the names written
\* after "include:" in the terms of that record, whatever the place of the
\* term in the record.
C20_ResolvesNameWritten ==
    \A d \in DOMAIN dns :
        dns[d].ok => /\ TakesFirstSpfRecord(d)
                     /\ NamesInOrder(d) = NamesWritten(d)

\* what is left of C20 in the code: it holds for the records that do not end
\* with an include term and have no colon in an include name
ResolvesNameWrittenUnlessLast ==
    NoIncludeIsLastTerm /\ NoColonInName => C20_ResolvesNameWritten

\* the part of C20 about a colon in the text after "include:", alone
ResolvesNameWithColon ==
    NoIncludeIsLastTerm => C20_ResolvesNameWritten

====
